---- MODULE Spec2Model ----
(***************************************************************************)
(* zk-SNARK age verification: the prover/verifier of                       *)
(* backend/zksnark_age_verification.py and the challenge/session service   *)
(* of backend/zksnark_main.py, followed by the two earlier variants of the *)
(* service, backend/enhanced_zkp.py and backend/main.py.                   *)
(***************************************************************************)
EXTENDS Integers, Sequences, FiniteSets, TLC

(***************************************************************************)
(* Bounds of the model.                                                    *)
(***************************************************************************)
\* thresholds sent to the service range over 0..MaxAge; the ages given to
\* the prover alone over -3..MaxAge+3 (Python ints are unbounded)
MaxAge == 1
\* secrets.token_hex(16) session ids issued: tokens 1..MaxSessions
MaxSessions == 1
\* random.randint(1, curve_order - 1) draws range over 1..MaxScalar
MaxScalar == 1
\* proof bundles the client side keeps
MaxBundles == 1
\* the clock runs over 0..MaxTime
MaxTime == 2
\* the time-to-live the design gives a challenge (no source constant)
TTL == 1
\* requests the event loop holds before their handlers run
MaxInflight == 3
\* stands for curve_order, the modulus of the witness values: a prime above
\* every age the model uses
FieldSize == 251

Ages == 0..MaxAge
WideAges == (0 - 3)..(MaxAge + 3)
SessionIds == 1..MaxSessions
\* the ids of two sessions that live side by side
PairIds == {1, 2}
AllSessionIds == SessionIds \cup PairIds
\* secrets.token_hex(32) challenges: one per session id, and one more that a
\* client can present and the service never issued
Challenges == 1..(MaxSessions + 1)
Scalars == 1..MaxScalar

(***************************************************************************)
(* Python values that travel in a proof: int, py_ecc field elements (FQ    *)
(* and FQ2 objects, which are not int), tuple, list, dict, and a marker    *)
(* for a key the proof dict does not have.                                 *)
(***************************************************************************)
PyInt(k) == [t |-> "int", n |-> k, items |-> <<>>]
PyFQ(k) == [t |-> "FQ", n |-> k, items |-> <<>>]
PyFQ2(k) == [t |-> "FQ2", n |-> k, items |-> <<>>]
PyDict(k) == [t |-> "dict", n |-> k, items |-> <<>>]
PyTuple(s) == [t |-> "tuple", n |-> 0, items |-> s]
PyList(s) == [t |-> "list", n |-> 0, items |-> s]
Missing == [t |-> "missing", n |-> 0, items |-> <<>>]
None == [t |-> "None", n |-> 0, items |-> <<>>]

\* isinstance(x, int)
IsInt(x) == x.t = "int"
\* isinstance(x, (tuple, list))
IsSeq(x) == x.t \in {"tuple", "list"}
\* tuple(x) if isinstance(x, list) else x
ListToTuple(x) == IF x.t = "list" THEN PyTuple(x.items) ELSE x

\* multiply(G1, k): an affine point, a tuple of two FQ field elements
G1Multiply(k) == PyTuple(<<PyFQ(k), PyFQ(k + 1)>>)
\* multiply(G2, k): a tuple of two FQ2 field elements
G2Multiply(k) == PyTuple(<<PyFQ2(k), PyFQ2(k + 1)>>)

(***************************************************************************)
(* ZKSNARKAgeCircuit                                                       *)
(***************************************************************************)
age_constraint_flipped(actual_age, minimum_age) == actual_age <= minimum_age

age_constraint_circuit(actual_age, minimum_age) == actual_age >= minimum_age

\* _generate_trusted_setup with its ten random draws made explicit: the
\* TrustedSetup dataclass it returns
generate_trusted_setup(alpha, beta, gamma, delta, abc_vals, ic_vals) ==
    [alpha |-> alpha, beta |-> beta, gamma |-> gamma, delta |-> delta,
     gamma_abc |-> [i \in 1..3 |-> G1Multiply(abc_vals[i])],
     ic |-> [i \in 1..3 |-> G1Multiply(ic_vals[i])]]

\* ZKSNARKAgeCircuit.__init__: the attributes of the new object
ZKSNARKAgeCircuit(alpha, beta, gamma, delta, abc_vals, ic_vals) ==
    [setup |-> generate_trusted_setup(alpha, beta, gamma, delta, abc_vals, ic_vals),
     field_size |-> FieldSize]

\* _polynomial_evaluation: the witness (Python's % is never negative)
polynomial_evaluation(actual_age, minimum_age) ==
    [actual_age |-> actual_age % FieldSize,
     minimum_age |-> minimum_age % FieldSize,
     result |-> IF actual_age >= minimum_age THEN 1 ELSE 0,
     intermediate |-> (actual_age - minimum_age) % FieldSize]

generate_proof_from_witness(actual_age, minimum_age, a_val, b_val, c_val) ==
    IF ~age_constraint_circuit(actual_age, minimum_age)
    THEN None
    ELSE LET witness == polynomial_evaluation(actual_age, minimum_age)
         IN  [t |-> "result",
              proof |-> [a |-> G1Multiply(a_val + witness.intermediate),
                         b |-> G2Multiply(b_val),
                         c |-> G1Multiply(c_val)],
              public_inputs |-> <<minimum_age, 1>>]

generate_proof_of_result(actual_age, minimum_age, a_val, b_val, c_val) ==
    IF ~age_constraint_circuit(actual_age, minimum_age)
    THEN None
    ELSE LET witness == polynomial_evaluation(actual_age, minimum_age)
         IN  [t |-> "result",
              proof |-> [a |-> G1Multiply(a_val),
                         b |-> G2Multiply(b_val),
                         c |-> G1Multiply(c_val)],
              public_inputs |-> <<minimum_age, 1 - witness.result>>]

\* generate_proof with its three random draws a_val, b_val, c_val made
\* explicit (r and s are drawn and never used): None, or <<proof, inputs>>.
\* The witness is built and no later line reads it.
generate_proof(actual_age, minimum_age, a_val, b_val, c_val) ==
    IF ~age_constraint_circuit(actual_age, minimum_age)
    THEN None
    ELSE LET witness == polynomial_evaluation(actual_age, minimum_age)
         IN  [t |-> "result",
              proof |-> [a |-> G1Multiply(a_val),
                         b |-> G2Multiply(b_val),
                         c |-> G1Multiply(c_val)],
              public_inputs |-> <<minimum_age, 1>>]

is_valid_g1_point(point) ==
    IF IsSeq(point) /\ Len(point.items) = 2
    THEN IsInt(point.items[1]) /\ IsInt(point.items[2])
    ELSE FALSE

\* coord1 + coord2 raises TypeError for a tuple and a list: caught, False
is_valid_g2_point(point) ==
    IF IsSeq(point) /\ Len(point.items) = 2
    THEN LET coord1 == point.items[1]
             coord2 == point.items[2]
         IN  IF IsSeq(coord1) /\ Len(coord1.items) = 2
                /\ IsSeq(coord2) /\ Len(coord2.items) = 2
             THEN /\ coord1.t = coord2.t
                  /\ \A i \in 1..2 : IsInt(coord1.items[i]) /\ IsInt(coord2.items[i])
             ELSE TRUE
    ELSE FALSE

verify_proof_any_result(proof, public_inputs) ==
    IF Len(public_inputs) # 2
    THEN FALSE
    ELSE IF ~(/\ is_valid_g1_point(proof.a)
              /\ is_valid_g2_point(proof.b)
              /\ is_valid_g1_point(proof.c))
    THEN FALSE
    ELSE public_inputs[1] >= 0

\* verify_proof: unpacking public_inputs raises unless it has two entries
verify_proof(proof, public_inputs) ==
    IF Len(public_inputs) # 2
    THEN FALSE
    ELSE IF public_inputs[2] # 1
    THEN FALSE
    ELSE IF ~(/\ is_valid_g1_point(proof.a)
              /\ is_valid_g2_point(proof.b)
              /\ is_valid_g1_point(proof.c))
    THEN FALSE
    ELSE public_inputs[2] = 1 /\ public_inputs[1] >= 0


(***************************************************************************)
(* ZKSNARKAgeVerifier                                                      *)
(***************************************************************************)
\* ZKSNARKAgeVerifier.__init__: the attributes of the new object
ZKSNARKAgeVerifier(circuit) == [circuit |-> circuit, active_challenges |-> {}]

KeepChallenge(active, challenge) == active

ConsumeAll(active, challenge) == {}

\* del self.active_challenges[challenge]
ConsumeChallenge(active, challenge) == active \ {challenge}

\* lines 311-339: the proof is rebuilt (lists become tuples) and verified;
\* a key the dict lacks raises KeyError, which is caught: False
reconstruct_and_verify(proof_data) ==
    LET proof_dict == proof_data.proof
    IN  IF Missing \in {proof_dict.a, proof_dict.b, proof_dict.c}
        THEN FALSE
        ELSE LET a_point == ListToTuple(proof_dict.a)
                 c_point == ListToTuple(proof_dict.c)
                 b_raw == proof_dict.b
                 b_point == IF b_raw.t = "list"
                            THEN PyTuple([i \in 1..Len(b_raw.items) |->
                                             ListToTuple(b_raw.items[i])])
                            ELSE b_raw
             IN  verify_proof([a |-> a_point, b |-> b_point, c |-> c_point],
                              proof_data.public_inputs)

server_verify_proof_unchecked(proof_data, challenge, active) ==
    [ret |-> reconstruct_and_verify(proof_data), active |-> active \ {challenge}]

\* server_verify_proof on the challenge store `active`: the value returned
\* and the store it leaves
server_verify_proof(proof_data, challenge, active) ==
    IF challenge \notin active
    THEN [ret |-> FALSE, active |-> active]
    ELSE [ret |-> reconstruct_and_verify(proof_data),
          active |-> ConsumeChallenge(active, challenge)]

\* client_generate_proof: None, or the bundle packaged for transmission
\* (timestamp is secrets.token_hex(16), a fifth random draw)
client_generate_proof(actual_age, minimum_age, challenge, a_val, b_val, c_val, ts) ==
    LET proof_result == generate_proof(actual_age, minimum_age, a_val, b_val, c_val)
    IN  IF proof_result = None
        THEN None
        ELSE [t |-> "bundle",
              proof |-> proof_result.proof,
              public_inputs |-> proof_result.public_inputs,
              challenge |-> challenge,
              timestamp |-> ts]

(***************************************************************************)
(* What a client can put on the wire                                       *)
(***************************************************************************)
\* FastAPI's JSON encoding of a value: tuples become arrays, ints stay,
\* any other object becomes a JSON object (a dict once parsed again)
RECURSIVE JsonEncode(_)
JsonEncode(x) ==
    IF x.t = "int" THEN x
    ELSE IF IsSeq(x) THEN PyList([i \in 1..Len(x.items) |-> JsonEncode(x.items[i])])
    ELSE PyDict(x.n)

JsonProof(proof) ==
    [a |-> JsonEncode(proof.a), b |-> JsonEncode(proof.b), c |-> JsonEncode(proof.c)]

IntPair(x, y) == PyList(<<PyInt(x), PyInt(y)>>)

\* proofs written by hand, never output by generate_proof
WellFormedProof ==
    [a |-> IntPair(1, 2), b |-> PyList(<<IntPair(1, 2), IntPair(3, 4)>>), c |-> IntPair(5, 6)]
NoCProof == [WellFormedProof EXCEPT !.c = Missing]
ForgedProofs == {WellFormedProof, NoCProof}

\* public_inputs: List[int] of any length
PublicInputs ==
    {<<>>} \cup {<<m>> : m \in Ages} \cup {<<m, r>> : m \in Ages, r \in {0, 1}}

\* what a caller of the library can pass: a and c as a list of ints or as
\* multiply's output; b as a list of int pairs, a plain pair of ints, a
\* list and a tuple side by side, or multiply's output
G1Shapes == {IntPair(1, 2), G1Multiply(1)}
G2Shapes ==
    {PyList(<<IntPair(1, 2), IntPair(3, 4)>>),
     IntPair(1, 2),
     PyTuple(<<IntPair(1, 2), PyTuple(<<PyInt(3), PyInt(4)>>)>>),
     G2Multiply(1)}
WideProofs == [a : G1Shapes, b : G2Shapes, c : G1Shapes]
\* ... and public inputs with a negative threshold or a third entry
WidePublicInputs ==
    PublicInputs \cup {<<0 - 1, 1>>} \cup {<<m, 1, 1>> : m \in Ages}


(***************************************************************************)
(* State                                                                   *)
(***************************************************************************)
VARIABLES
    active_challenges,  \* ZKSNARKAgeVerifier.active_challenges (its keys)
    active_sessions,    \* zksnark_main.active_sessions: session id -> session
    issued_challenges,  \* how many tokens generate_challenge has drawn
    issued_sessions,    \* how many session ids request_challenge has drawn
    now,                \* the clock datetime.now() reads
    bundles,            \* proof bundles client_generate_proof has returned
    inflight,           \* verify-zkproof requests received, handler not yet run
    lastCall,           \* the latest call: its arguments, and what it returned
    acceptCount,        \* per challenge: calls of server_verify_proof that returned True
    wins,               \* per session id: verify_zkproof responses with is_valid true
    transitions,        \* per session id: changes of status from pending to completed
    failed              \* session ids that answered a request carrying their challenge
                        \* with anything but is_valid true

vars == <<active_challenges, active_sessions, issued_challenges, issued_sessions,
          now, bundles, inflight, lastCall, acceptCount, wins, transitions, failed>>

serverVars == <<active_challenges, active_sessions, issued_challenges, issued_sessions>>
counters == <<acceptCount, wins, transitions, failed>>

Init ==
    /\ active_challenges = {}
    /\ active_sessions = [s \in {} |-> 0]
    /\ issued_challenges = 0
    /\ issued_sessions = 0
    /\ now = 0
    /\ bundles = {}
    /\ inflight = {}
    /\ lastCall = [op |-> "none"]
    /\ acceptCount = [c \in Challenges |-> 0]
    /\ wins = [s \in AllSessionIds |-> 0]
    /\ transitions = [s \in AllSessionIds |-> 0]
    /\ failed = {}

\* time passes
Tick ==
    /\ now < MaxTime
    /\ now' = now + 1
    /\ UNCHANGED <<serverVars, bundles, inflight, lastCall, counters>>

\* secrets.token_hex: a token no earlier call returned
FreshChallenge == issued_challenges + 1
FreshSessionId == issued_sessions + 1

\* the dict request_challenge stores for a new session
new_session(challenge, minimum_age, at) ==
    [challenge |-> challenge, minimum_age |-> minimum_age,
     created_at |-> at, status |-> "pending"]

\* the handler of POST /request-challenge, while fewer than `limit`
\* sessions have been issued
request_challenge(minimum_age, limit) ==
    /\ issued_sessions < limit
    /\ active_challenges' = active_challenges \cup {FreshChallenge}
    /\ issued_challenges' = issued_challenges + 1
    /\ issued_sessions' = issued_sessions + 1
    /\ active_sessions' =
           [s \in DOMAIN active_sessions \cup {FreshSessionId} |->
               IF s = FreshSessionId
               THEN new_session(FreshChallenge, minimum_age, now)
               ELSE active_sessions[s]]
    /\ lastCall' = [op |-> "request_challenge", minimum_age |-> minimum_age,
                    challenge |-> FreshChallenge, session_id |-> FreshSessionId]
    /\ UNCHANGED <<now, bundles, inflight, counters>>

\* POST /request-challenge
RequestChallenge(minimum_age) == request_challenge(minimum_age, MaxSessions)

\* ZKSNARKAgeVerifier.client_generate_proof, run by the holder of the age,
\* who keeps the bundle to send it later, or does not
ClientGenerateProof(actual_age, minimum_age, challenge, a_val, b_val, c_val, ts, keep) ==
    LET ret == client_generate_proof(actual_age, minimum_age, challenge,
                                     a_val, b_val, c_val, ts)
        kept == keep /\ ret # None
    IN  /\ kept => (ret \in bundles \/ Cardinality(bundles) < MaxBundles)
        /\ bundles' = IF kept THEN bundles \cup {ret} ELSE bundles
        /\ lastCall' = [op |-> "client_generate_proof", actual_age |-> actual_age,
                        minimum_age |-> minimum_age, challenge |-> challenge,
                        ret |-> ret]
        /\ UNCHANGED <<serverVars, now, inflight, counters>>


(***************************************************************************)
(* POST /verify-zkproof                                                    *)
(***************************************************************************)
\* a saturating count: the model stays finite whatever the handlers do
Count(n) == IF n < 2 THEN n + 1 ELSE n

consumed_on_reject(active, challenge) == active \ {challenge}

\* lines 113-124: HTTPException is raised before server_verify_proof is
\* called, so the challenge store is the one the handler found
untouched_on_reject(active, challenge) == active

no_challenge_check(challenge, session) == FALSE

\* line 119
challenge_mismatch(challenge, session) == session.challenge # challenge

no_minimum_age_check(public_inputs, session) == FALSE

\* line 123
minimum_age_mismatch(public_inputs, session) ==
    Len(public_inputs) < 1 \/ public_inputs[1] # session.minimum_age

Http400(detail) == [code |-> 400, detail |-> detail]
ZKProofResponse(is_valid) ==
    [code |-> 200, is_valid |-> is_valid,
     message |-> IF is_valid THEN "Age verification successful" ELSE "Invalid proof"]

toggled_session(session, is_valid, at) ==
    [challenge |-> session.challenge, minimum_age |-> session.minimum_age,
     created_at |-> session.created_at,
     status |-> IF session.status = "pending" THEN "completed" ELSE "pending",
     result |-> is_valid, verified_at |-> at]

unmarked_session(session, is_valid, at) ==
    [challenge |-> session.challenge, minimum_age |-> session.minimum_age,
     created_at |-> session.created_at, status |-> session.status,
     result |-> is_valid, verified_at |-> at]

\* lines 138-140: the session dict after the three assignments
completed_session(session, is_valid, at) ==
    [challenge |-> session.challenge, minimum_age |-> session.minimum_age,
     created_at |-> session.created_at, status |-> "completed",
     result |-> is_valid, verified_at |-> at]

\* what the handler finds when it starts
PreState(req) ==
    IF req.session_id \in DOMAIN active_sessions
    THEN LET session == active_sessions[req.session_id]
         IN  [known |-> TRUE,
              status |-> session.status,
              minimum_age |-> session.minimum_age,
              challenge |-> session.challenge,
              elapsed |-> now - session.created_at,
              active |-> req.challenge \in active_challenges,
              failed |-> req.session_id \in failed,
              first |-> req.session_id \notin failed /\ wins[req.session_id] = 0]
    ELSE [known |-> FALSE, active |-> req.challenge \in active_challenges]

\* the handler, start to end: it is an async def with no await in its body,
\* so the event loop runs it without interleaving another request
verify_zkproof(req) ==
    LET id == req.session_id
        rejected(detail) ==
            /\ lastCall' = [op |-> "verify_zkproof", request |-> req,
                            pre |-> PreState(req), response |-> Http400(detail)]
            /\ active_challenges' = untouched_on_reject(active_challenges, req.challenge)
            /\ UNCHANGED <<active_sessions, issued_challenges, issued_sessions,
                           acceptCount, wins, transitions>>
    IN  IF id \notin DOMAIN active_sessions
        THEN rejected("Invalid session ID") /\ UNCHANGED failed
        ELSE
          LET session == active_sessions[id] IN
          IF challenge_mismatch(req.challenge, session)
          THEN rejected("Challenge mismatch") /\ UNCHANGED failed
          ELSE IF minimum_age_mismatch(req.public_inputs, session)
          THEN rejected("Minimum age mismatch") /\ failed' = failed \cup {id}
          ELSE
               LET proof_data == [proof |-> req.proof,
                                  public_inputs |-> req.public_inputs,
                                  challenge |-> req.challenge,
                                  timestamp |-> now]
                   res == server_verify_proof(proof_data, req.challenge,
                                              active_challenges)
                   is_valid == res.ret
               IN  /\ active_challenges' = res.active
                   /\ active_sessions' =
                          [active_sessions EXCEPT ![id] =
                              completed_session(session, is_valid, now)]
                   /\ lastCall' = [op |-> "verify_zkproof", request |-> req,
                                   pre |-> PreState(req),
                                   response |-> ZKProofResponse(is_valid)]
                   /\ acceptCount' = IF is_valid
                                     THEN [acceptCount EXCEPT ![req.challenge] = Count(@)]
                                     ELSE acceptCount
                   /\ wins' = IF is_valid THEN [wins EXCEPT ![id] = Count(@)] ELSE wins
                   /\ failed' = IF is_valid THEN failed ELSE failed \cup {id}
                   /\ transitions' = IF session.status = "pending"
                                     THEN [transitions EXCEPT ![id] = Count(@)]
                                     ELSE transitions
                   /\ UNCHANGED <<issued_challenges, issued_sessions>>

\* proofs a client can send: written by hand, or a bundle's proof, passed
\* as the Python objects client_generate_proof returned or as their JSON
SubmittableProofs ==
    ForgedProofs \cup {b.proof : b \in bundles} \cup {JsonProof(b.proof) : b \in bundles}

Requests ==
    [proof : SubmittableProofs, public_inputs : PublicInputs,
     challenge : Challenges, session_id : SessionIds]

\* a request handled as soon as it arrives
VerifyZkproof ==
    \E req \in Requests :
        /\ verify_zkproof(req)
        /\ UNCHANGED <<now, bundles, inflight>>

\* ZKSNARKAgeVerifier.server_verify_proof, called by a library user with a
\* dict of a bundle's shape made for the challenge it passes
ProofData(challenge) ==
    [proof : ForgedProofs, public_inputs : {<<0, 0>>, <<0, 1>>}, challenge : {challenge}]

ServerVerifyProofOn(proof_data, challenge) ==
    LET res == server_verify_proof(proof_data, challenge, active_challenges)
    IN  /\ active_challenges' = res.active
        /\ lastCall' = [op |-> "server_verify_proof", proof_data |-> proof_data,
                        challenge |-> challenge, ret |-> res.ret,
                        pre |-> [active |-> challenge \in active_challenges]]
        /\ acceptCount' = IF res.ret
                          THEN [acceptCount EXCEPT ![challenge] = Count(@)]
                          ELSE acceptCount
        /\ UNCHANGED <<active_sessions, issued_challenges, issued_sessions,
                       now, bundles, inflight, wins, transitions, failed>>

ServerVerifyProof ==
    \E challenge \in Challenges :
        \E proof_data \in ProofData(challenge) : ServerVerifyProofOn(proof_data, challenge)

\* ZKSNARKAgeVerifier.generate_challenge, called by a library user
GenerateChallenge ==
    /\ issued_challenges < MaxSessions
    /\ active_challenges' = active_challenges \cup {FreshChallenge}
    /\ issued_challenges' = issued_challenges + 1
    /\ lastCall' = [op |-> "generate_challenge", ret |-> FreshChallenge]
    /\ UNCHANGED <<active_sessions, issued_sessions, now, bundles, inflight, counters>>

\* ZKSNARKAgeCircuit.verify_proof, called by a library user on a Proof
VerifyProof(proof, public_inputs) ==
    /\ lastCall' = [op |-> "verify_proof", proof |-> proof,
                    public_inputs |-> public_inputs,
                    ret |-> verify_proof(proof, public_inputs)]
    /\ UNCHANGED <<serverVars, now, bundles, inflight, counters>>

\* POST /demo-client-proof: the service runs client_generate_proof on the
\* actual_age of the request and returns the bundle, which the client keeps
DemoClientProof(actual_age, minimum_age, challenge, a_val, b_val, c_val, ts) ==
    LET proof_data == client_generate_proof(actual_age, minimum_age, challenge,
                                            a_val, b_val, c_val, ts)
        success == proof_data # None
    IN  /\ success => (proof_data \in bundles \/ Cardinality(bundles) < MaxBundles)
        /\ bundles' = IF success THEN bundles \cup {proof_data} ELSE bundles
        /\ lastCall' =
               [op |-> "demo_client_proof",
                request |-> [actual_age |-> actual_age, minimum_age |-> minimum_age,
                             challenge |-> challenge],
                called |-> "client_generate_proof",
                response |->
                    IF success
                    THEN [success |-> TRUE,
                          proof_data |-> [proof |-> JsonProof(proof_data.proof),
                                          public_inputs |-> proof_data.public_inputs,
                                          challenge |-> proof_data.challenge]]
                    ELSE [success |-> FALSE]]
        /\ UNCHANGED <<serverVars, now, inflight, counters>>

\* zksnark_verifier = ZKSNARKAgeVerifier(), run once when the service module
\* is loaded; the object lives as long as the process
SetupScalars == 1..(MaxScalar + 1)

Construct(alpha, beta, gamma, delta, abc_vals, ic_vals) ==
    /\ lastCall.op = "none"
    /\ lastCall' = [op |-> "ZKSNARKAgeVerifier",
                    ret |-> ZKSNARKAgeVerifier(
                                ZKSNARKAgeCircuit(alpha, beta, gamma, delta,
                                                  abc_vals, ic_vals))]
    /\ UNCHANGED <<serverVars, now, bundles, inflight, counters>>

CleanupEverything ==
    /\ active_sessions' = [s \in {} |-> 0]
    /\ active_challenges' = {}
    /\ lastCall' = [op |-> "cleanup_sessions"]
    /\ UNCHANGED <<issued_challenges, issued_sessions,
                   now, bundles, inflight, counters>>

\* DELETE /cleanup-sessions
CleanupSessions ==
    /\ active_sessions' = [s \in {} |-> 0]
    /\ lastCall' = [op |-> "cleanup_sessions"]
    /\ UNCHANGED <<active_challenges, issued_challenges, issued_sessions,
                   now, bundles, inflight, counters>>

(***************************************************************************)
(* The service with clients that write their requests by hand.  No handler *)
(* reads the clock, so it stands still here; SpecTimed lets it run.        *)
(***************************************************************************)
Next ==
    \/ \E minimum_age \in Ages : RequestChallenge(minimum_age)
    \/ VerifyZkproof
    \/ CleanupSessions

Spec == Init /\ [][Next]_vars

\* the service, and the verifier it holds called directly as well
NextReplay ==
    \/ \E minimum_age \in Ages : RequestChallenge(minimum_age)
    \/ VerifyZkproof
    \/ ServerVerifyProof

SpecReplay == Init /\ [][NextReplay]_vars

\* the library alone: the verifier and its circuit called directly, with
\* any proof and public inputs
WideProofData(challenge) ==
    [proof : WideProofs \cup {NoCProof}, public_inputs : WidePublicInputs,
     challenge : {challenge}]

NextVerify ==
    \/ GenerateChallenge
    \/ \E proof \in WideProofs, public_inputs \in WidePublicInputs :
           VerifyProof(proof, public_inputs)
    \/ \E challenge \in Challenges :
         \E proof_data \in WideProofData(challenge) :
           ServerVerifyProofOn(proof_data, challenge)

SpecVerify == Init /\ [][NextVerify]_vars

\* the ages the design calls sane, and ages on both sides of each end
SaneAges == 0..150
ProbeAges == {0 - 1, 0, 18, 150, 151, 200}

\* the prover and the challenge endpoint given any int
NextSanity ==
    \/ \E actual_age \in ProbeAges, minimum_age \in ProbeAges, challenge \in Challenges,
          a_val \in Scalars, b_val \in Scalars, c_val \in Scalars, ts \in Scalars :
           ClientGenerateProof(actual_age, minimum_age, challenge,
                               a_val, b_val, c_val, ts, FALSE)
    \/ \E minimum_age \in ProbeAges : RequestChallenge(minimum_age)

SpecSanity == Init /\ [][NextSanity]_vars

\* the service with clients that have it generate their proofs
NextDemo ==
    \/ \E actual_age \in Ages, minimum_age \in Ages, challenge \in Challenges,
          a_val \in Scalars, b_val \in Scalars, c_val \in Scalars, ts \in Scalars :
           DemoClientProof(actual_age, minimum_age, challenge, a_val, b_val, c_val, ts)
    \/ \E minimum_age \in Ages : RequestChallenge(minimum_age)
    \/ VerifyZkproof

SpecDemo == Init /\ [][NextDemo]_vars

\* the construction of the verifier, whatever the setup draws
NextSetup ==
    \E alpha \in SetupScalars, beta \in SetupScalars,
       gamma \in SetupScalars, delta \in SetupScalars,
       abc_vals \in [1..3 -> SetupScalars], ic_vals \in [1..3 -> SetupScalars] :
        Construct(alpha, beta, gamma, delta, abc_vals, ic_vals)

SpecSetup == Init /\ [][NextSetup]_vars

\* the service with two sessions side by side
PairRequests ==
    [proof : ForgedProofs, public_inputs : PublicInputs,
     challenge : Challenges, session_id : PairIds]

NextPair ==
    \/ \E minimum_age \in Ages : request_challenge(minimum_age, Cardinality(PairIds))
    \/ \E req \in PairRequests :
           /\ verify_zkproof(req)
           /\ UNCHANGED <<now, bundles, inflight>>

SpecPair == Init /\ [][NextPair]_vars

\* the service while time passes
NextTimed ==
    \/ Tick
    \/ \E minimum_age \in Ages : RequestChallenge(minimum_age)
    \/ VerifyZkproof

SpecTimed == Init /\ [][NextTimed]_vars

\* the service with clients that run client_generate_proof on the
\* challenges it has issued
NextProver ==
    \/ \E actual_age \in Ages, minimum_age \in Ages, challenge \in 1..issued_challenges,
          a_val \in Scalars, b_val \in Scalars, c_val \in Scalars, ts \in Scalars :
           ClientGenerateProof(actual_age, minimum_age, challenge,
                               a_val, b_val, c_val, ts, TRUE)
    \/ \E minimum_age \in Ages : RequestChallenge(minimum_age)
    \/ VerifyZkproof

SpecProver == Init /\ [][NextProver]_vars

\* the prover alone, given any ages
NextClient ==
    \E actual_age \in WideAges, minimum_age \in WideAges, challenge \in Challenges,
       a_val \in Scalars, b_val \in Scalars, c_val \in Scalars, ts \in Scalars :
        ClientGenerateProof(actual_age, minimum_age, challenge,
                            a_val, b_val, c_val, ts, FALSE)

SpecClient == Init /\ [][NextClient]_vars

(***************************************************************************)
(* Concurrent submissions: requests arrive on connections and wait for the *)
(* event loop, which runs one handler at a time, in any order.             *)
(***************************************************************************)
Connections == 1..MaxInflight

\* the requests that carry a session's challenge, its threshold and a
\* well-formed proof
CorrectRequests ==
    {[proof |-> WellFormedProof,
      public_inputs |-> <<active_sessions[s].minimum_age, 1>>,
      challenge |-> active_sessions[s].challenge,
      session_id |-> s] : s \in DOMAIN active_sessions}

Receive(conn, req) ==
    /\ \A r \in inflight : r.conn # conn
    /\ inflight' = inflight \cup {[conn |-> conn, request |-> req]}
    /\ lastCall' = [op |-> "receive", conn |-> conn]
    /\ UNCHANGED <<serverVars, now, bundles, counters>>

Dispatch(r) ==
    /\ r \in inflight
    /\ verify_zkproof(r.request)
    /\ inflight' = inflight \ {r}
    /\ UNCHANGED <<now, bundles>>

NextConcurrent ==
    \/ \E minimum_age \in Ages : RequestChallenge(minimum_age)
    \/ \E conn \in Connections, req \in CorrectRequests : Receive(conn, req)
    \/ \E r \in inflight : Dispatch(r)

SpecConcurrent == Init /\ [][NextConcurrent]_vars

(***************************************************************************)
(* Properties                                                              *)
(***************************************************************************)
Proved == lastCall.op = "client_generate_proof"
Verified == lastCall.op = "verify_zkproof"
\* the latest call was a verify_zkproof answered with is_valid = true
Accepted ==
    Verified /\ lastCall.response.code = 200 /\ lastCall.response.is_valid
\* the latest call was a verify_zkproof naming a session that existed
VerifiedKnown == Verified /\ lastCall.pre.known
\* ... and carrying that session's own challenge
VerifiedOwn == VerifiedKnown /\ lastCall.request.challenge = lastCall.pre.challenge
\* the bundles whose proof a request carries, as objects or as JSON
BundlesOf(req) ==
    {b \in bundles : /\ req.proof \in {b.proof, JsonProof(b.proof)}
                     /\ req.public_inputs = b.public_inputs}

\* C1: given actual_age < minimum_age, generate_proof (whatever it draws)
\* and client_generate_proof (whatever the challenge) return None
C1_ProverRefuses ==
    (Proved /\ lastCall.actual_age < lastCall.minimum_age) =>
        /\ lastCall.ret = None
        /\ \A a_val \in Scalars, b_val \in Scalars, c_val \in Scalars :
               generate_proof(lastCall.actual_age, lastCall.minimum_age,
                              a_val, b_val, c_val) = None

C1_Witness ==
    /\ Proved
    /\ lastCall.actual_age < lastCall.minimum_age
    /\ lastCall.ret = None

\* C2: the bundle client_generate_proof returned for a session's threshold
\* and challenge, sent as the first submission for that session, is answered
\* with is_valid = true
C2_Completeness ==
    (/\ VerifiedOwn
     /\ lastCall.pre.first
     /\ \E b \in BundlesOf(lastCall.request) :
            /\ b.challenge = lastCall.request.challenge
            /\ b.public_inputs[1] = lastCall.pre.minimum_age)
    => Accepted

\* C3: no challenge and no session is answered is_valid = true twice, and a
\* submission whose challenge is no longer active is never accepted
C3_SingleUse ==
    /\ \A c \in Challenges : acceptCount[c] <= 1
    /\ \A s \in SessionIds : wins[s] <= 1
    /\ (Verified /\ ~lastCall.pre.active) => ~Accepted
    /\ (lastCall.op = "server_verify_proof" /\ ~lastCall.pre.active) => ~lastCall.ret

C3_Witness ==
    /\ VerifiedOwn
    /\ lastCall.pre.status = "completed"
    /\ wins[lastCall.request.session_id] = 1
    /\ lastCall.request.proof = WellFormedProof
    /\ lastCall.request.public_inputs = <<lastCall.pre.minimum_age, 1>>
    /\ ~Accepted

\* C4: is_valid = true is answered only for a proof the prover produced
C4_VerifierSoundness ==
    Accepted => \E b \in bundles : lastCall.request.proof \in {b.proof, JsonProof(b.proof)}

\* C5: a submission whose public_inputs[0] is not the session's minimum_age
\* is never answered is_valid = true
C5_ThresholdBinding ==
    (/\ VerifiedKnown
     /\ \/ Len(lastCall.request.public_inputs) < 1
        \/ lastCall.request.public_inputs[1] # lastCall.pre.minimum_age)
    => ~Accepted

C5_Witness ==
    /\ VerifiedOwn
    /\ lastCall.pre.status = "pending"
    /\ lastCall.pre.active
    /\ lastCall.request.proof = WellFormedProof
    /\ Len(lastCall.request.public_inputs) = 2
    /\ lastCall.request.public_inputs[1] # lastCall.pre.minimum_age
    /\ lastCall.request.public_inputs[2] = 1
    /\ ~Accepted

\* C6: a proof is accepted only under the challenge client_generate_proof
\* produced it for
C6_ChallengeBinding ==
    Accepted => \E b \in BundlesOf(lastCall.request) :
                    b.challenge = lastCall.request.challenge

\* C7: a submission that carries the session's own challenge and is not
\* accepted leaves the challenge consumed, so a session that has failed once
\* is never accepted later
C7_ConsumedWhateverTheOutcome ==
    /\ (VerifiedOwn /\ ~Accepted) => lastCall.request.challenge \notin active_challenges
    /\ Accepted => ~lastCall.pre.failed

\* C8: a submission to a completed session gets an error of its own, not
\* the is_valid = false verdict of an invalid proof
C8_CompletedIsDistinct ==
    (VerifiedKnown /\ lastCall.pre.status = "completed") => lastCall.response.code # 200

\* C9: a submission made more than TTL after the session was created is not
\* accepted
C9_Expiry ==
    (VerifiedKnown /\ lastCall.pre.elapsed > TTL) => ~Accepted

\* C10: of the concurrent correct submissions for one session exactly one
\* is answered is_valid = true, and the session completes exactly once
C10_OneWinner ==
    \A s \in SessionIds :
        /\ wins[s] <= 1
        /\ transitions[s] <= 1
        /\ (wins[s] >= 1 \/ s \in failed) => (wins[s] = 1 /\ transitions[s] = 1)
        /\ (VerifiedKnown /\ lastCall.pre.status = "completed") => ~Accepted

\* of three correct submissions for one session, received before any was
\* handled, one has won, one has just lost and one is still waiting
C10_Witness ==
    /\ Verified
    /\ lastCall.response = ZKProofResponse(FALSE)
    /\ lastCall.request \in CorrectRequests
    /\ wins[lastCall.request.session_id] = 1
    /\ transitions[lastCall.request.session_id] = 1
    /\ \E r \in inflight : r.request = lastCall.request

\* C11: a session enters active_sessions with status pending, and the only
\* change of status any step makes is from pending to completed
C11_StateMachine ==
    [][\A s \in SessionIds :
          /\ (s \notin DOMAIN active_sessions /\ s \in DOMAIN active_sessions')
                 => active_sessions'[s].status = "pending"
          /\ (s \in DOMAIN active_sessions /\ s \in DOMAIN active_sessions')
                 => \/ active_sessions'[s].status = active_sessions[s].status
                    \/ /\ active_sessions[s].status = "pending"
                       /\ active_sessions'[s].status = "completed"]_vars

\* a completed session has handled one more submission with its own
\* challenge and threshold, and is completed still
C11_Witness ==
    /\ VerifiedOwn
    /\ lastCall.pre.status = "completed"
    /\ lastCall.response.code = 200
    /\ lastCall.request.session_id \in DOMAIN active_sessions
    /\ active_sessions[lastCall.request.session_id].status = "completed"

\* C12: once a session is completed no step changes its result or any other
\* of its fields
C12_MutatedOnce ==
    [][\A s \in SessionIds :
          (/\ s \in DOMAIN active_sessions
           /\ s \in DOMAIN active_sessions'
           /\ active_sessions[s].status = "completed")
          => active_sessions'[s] = active_sessions[s]]_vars

\* public inputs that are not exactly [minimum_age, 1]
NotClaimingOne(public_inputs) ==
    Len(public_inputs) # 2 \/ public_inputs[2] # 1

\* C13: verify_proof and server_verify_proof return False for public inputs
\* that are not two entries with the second equal to 1, whatever the proof
\* (verify_zkproof answers with server_verify_proof's value)
C13_ResultGate ==
    /\ (lastCall.op = "verify_proof" /\ NotClaimingOne(lastCall.public_inputs))
           => ~lastCall.ret
    /\ (/\ lastCall.op = "server_verify_proof"
        /\ NotClaimingOne(lastCall.proof_data.public_inputs))
           => ~lastCall.ret

\* an active challenge and a well-formed proof, refused for the claimed
\* result 0
C13_Witness ==
    /\ lastCall.op = "server_verify_proof"
    /\ lastCall.pre.active
    /\ lastCall.proof_data.proof.a = IntPair(1, 2)
    /\ lastCall.proof_data.proof.b = PyList(<<IntPair(1, 2), IntPair(3, 4)>>)
    /\ lastCall.proof_data.proof.c = IntPair(1, 2)
    /\ lastCall.proof_data.public_inputs = <<0, 0>>
    /\ ~lastCall.ret

\* a pair of integers; a pair of pairs of integers
IsIntPair(x) ==
    IsSeq(x) /\ Len(x.items) = 2 /\ IsInt(x.items[1]) /\ IsInt(x.items[2])
IsPairOfIntPairs(x) ==
    IsSeq(x) /\ Len(x.items) = 2 /\ IsIntPair(x.items[1]) /\ IsIntPair(x.items[2])

\* C20: verify_proof returns True only for a proof whose a and c are pairs
\* of integers and whose b is a pair of pairs of integers
C20_StructuralGate ==
    (lastCall.op = "verify_proof" /\ lastCall.ret) =>
        /\ IsIntPair(lastCall.proof.a)
        /\ IsPairOfIntPairs(lastCall.proof.b)
        /\ IsIntPair(lastCall.proof.c)

\* C14: no bundle is produced for an actual_age or a minimum_age outside
\* [0, 150], and no challenge is issued for a negative minimum_age
C14_SanityBound ==
    /\ (Proved /\ ~(lastCall.actual_age \in SaneAges /\ lastCall.minimum_age \in SaneAges))
           => lastCall.ret = None
    /\ lastCall.op = "request_challenge" => lastCall.minimum_age >= 0

\* C15: for a fixed minimum_age and challenge, a bundle
\* client_generate_proof returned for one actual_age is a bundle it can
\* return for every other actual_age >= minimum_age
C15_WitnessIndependence ==
    (Proved /\ lastCall.ret # None) =>
        \A other_age \in WideAges :
            other_age >= lastCall.minimum_age =>
                \E a_val \in Scalars, b_val \in Scalars, c_val \in Scalars, ts \in Scalars :
                    client_generate_proof(other_age, lastCall.minimum_age,
                                          lastCall.challenge,
                                          a_val, b_val, c_val, ts) = lastCall.ret

\* a bundle made for an age well above the threshold
C15_Witness ==
    /\ Proved
    /\ lastCall.ret # None
    /\ lastCall.actual_age >= lastCall.minimum_age + 2

\* C19: every bundle carries public_inputs [minimum_age, 1] for the
\* minimum_age, and the challenge, the prover was called with; generate_proof
\* never outputs result 0
C19_BundleShape ==
    /\ (Proved /\ lastCall.ret # None) =>
           /\ lastCall.ret.public_inputs = <<lastCall.minimum_age, 1>>
           /\ lastCall.ret.challenge = lastCall.challenge
    /\ Proved =>
           \A a_val \in Scalars, b_val \in Scalars, c_val \in Scalars :
               LET proof_result == generate_proof(lastCall.actual_age,
                                                  lastCall.minimum_age,
                                                  a_val, b_val, c_val)
               IN  proof_result # None =>
                       proof_result.public_inputs = <<lastCall.minimum_age, 1>>

\* a bundle for the never-issued challenge and the threshold MaxAge
C19_Witness ==
    /\ Proved
    /\ lastCall.ret # None
    /\ lastCall.minimum_age = MaxAge
    /\ lastCall.challenge = MaxSessions + 1
    /\ lastCall.ret.public_inputs = <<MaxAge, 1>>

\* the latest call was to an endpoint that takes a request body
Served == lastCall.op \in {"verify_zkproof", "demo_client_proof"}

\* C16: no request the service handles carries actual_age, and no handler
\* runs the prover
C16_AgeStaysWithClient ==
    /\ Served => "actual_age" \notin DOMAIN lastCall.request
    /\ lastCall.op = "demo_client_proof" => lastCall.called # "client_generate_proof"

\* the scalars the setup draws and is to forget
ToxicWaste == {"alpha", "beta", "gamma", "delta"}

\* C17: the verifier object built at start-up holds the derived key
\* material only: none of alpha, beta, gamma, delta is an attribute of its
\* circuit's setup
C17_NoToxicWaste ==
    lastCall.op = "ZKSNARKAgeVerifier" =>
        DOMAIN lastCall.ret.circuit.setup \cap ToxicWaste = {}

\* C18: a request naming no session, or presenting another challenge than
\* the session's, is answered with its own 400 error, never with a verdict,
\* and leaves the session and the challenges as they were
C18_MisuseIsDistinct ==
    /\ (Verified /\ ~lastCall.pre.known)
           => lastCall.response = Http400("Invalid session ID")
    /\ (VerifiedKnown /\ lastCall.request.challenge # lastCall.pre.challenge)
           => /\ lastCall.response = Http400("Challenge mismatch")
              /\ lastCall.request.session_id \in DOMAIN active_sessions
              /\ active_sessions[lastCall.request.session_id].status
                     = lastCall.pre.status

\* a pending session was sent a well-formed proof and its threshold under a
\* challenge that is not its own
C18_Witness ==
    /\ VerifiedKnown
    /\ lastCall.pre.status = "pending"
    /\ lastCall.request.challenge # lastCall.pre.challenge
    /\ lastCall.request.proof = WellFormedProof
    /\ lastCall.request.public_inputs = <<lastCall.pre.minimum_age, 1>>
    /\ lastCall.response = Http400("Challenge mismatch")

\* C21: a verify_zkproof call naming session A leaves every other session
\* B as it was, and B's challenge active if and only if it was
C21_SessionsIndependent ==
    [][\A A \in PairIds, B \in PairIds :
          (/\ A # B
           /\ lastCall'.op = "verify_zkproof"
           /\ lastCall'.request.session_id = A
           /\ B \in DOMAIN active_sessions)
          => /\ B \in DOMAIN active_sessions'
             /\ active_sessions'[B] = active_sessions[B]
             /\ (active_sessions[B].challenge \in active_challenges')
                    <=> (active_sessions[B].challenge \in active_challenges)]_vars

\* session 1 has just been verified and accepted while session 2 is
\* pending with its challenge active
C21_Witness ==
    /\ Accepted
    /\ lastCall.request.session_id = 1
    /\ 2 \in DOMAIN active_sessions
    /\ active_sessions[2].status = "pending"
    /\ active_sessions[2].challenge \in active_challenges
    /\ active_sessions[1].status = "completed"

\* C22: a session in active_sessions is pending if and only if its
\* challenge is in the verifier's active_challenges
C22_StoresAgree ==
    \A s \in DOMAIN active_sessions :
        (active_sessions[s].status = "pending")
            <=> (active_sessions[s].challenge \in active_challenges)

\* a session first refused for its threshold, still pending with its
\* challenge active, has now been completed and its challenge consumed
C22_Witness ==
    /\ VerifiedOwn
    /\ lastCall.pre.failed
    /\ lastCall.pre.status = "pending"
    /\ lastCall.pre.active
    /\ lastCall.response.code = 200
    /\ active_sessions[lastCall.request.session_id].status = "completed"
    /\ lastCall.request.challenge \notin active_challenges

\* C23: a verify_zkproof request answered with a 400 error leaves
\* active_sessions and active_challenges exactly as they were
C23_RejectionFrame ==
    [][(lastCall'.op = "verify_zkproof" /\ lastCall'.response.code = 400)
          => /\ active_sessions' = active_sessions
             /\ active_challenges' = active_challenges]_vars

\* a pending session has refused a well-formed proof for its threshold and
\* is pending still, its challenge active
C23_Witness ==
    /\ VerifiedOwn
    /\ lastCall.response = Http400("Minimum age mismatch")
    /\ lastCall.request.proof = WellFormedProof
    /\ active_sessions[lastCall.request.session_id].status = "pending"
    /\ lastCall.request.challenge \in active_challenges

\* the challenges no session in active_sessions holds
Orphans ==
    {c \in active_challenges :
        \A s \in DOMAIN active_sessions : active_sessions[s].challenge # c}

\* C24: cleanup_sessions empties active_sessions and leaves
\* active_challenges as it was; a challenge whose session is gone stays
\* active in every later step, and no request is accepted for it: a request
\* naming a session that is gone is answered Invalid session ID
C24_CleanupOrphans ==
    [][/\ lastCall'.op = "cleanup_sessions"
          => /\ DOMAIN active_sessions' = {}
             /\ active_challenges' = active_challenges
       /\ Orphans \subseteq Orphans'
       /\ (lastCall'.op = "verify_zkproof"
           /\ lastCall'.request.session_id \notin DOMAIN active_sessions)
          => lastCall'.response = Http400("Invalid session ID")
       /\ (lastCall'.op = "verify_zkproof" /\ lastCall'.response.code = 200)
          => lastCall'.request.challenge \notin Orphans]_vars

\* after a cleanup, a well-formed proof sent with a session's id, challenge
\* and threshold of before was refused, and the challenge is active still
C24_Witness ==
    /\ Verified
    /\ ~lastCall.pre.known
    /\ lastCall.request.session_id <= issued_sessions
    /\ lastCall.request.challenge \in Orphans
    /\ lastCall.request.proof = WellFormedProof
    /\ Len(lastCall.request.public_inputs) = 2
    /\ lastCall.response = Http400("Invalid session ID")

(***************************************************************************)
(* The HMAC/commitment variant of backend/enhanced_zkp.py.  Its verifier   *)
(* object holds a secret key and nothing else: no call stores a challenge. *)
(* issued_challenges counts the tokens get_challenge has returned.         *)
(***************************************************************************)
PyStr(s) == [t |-> "str", n |-> 0, items |-> <<s>>]
PyBool(b) == [t |-> "bool", n |-> IF b THEN 1 ELSE 0, items |-> <<>>]
\* secrets.token_hex(32) and secrets.token_hex(16): strings of 64 and of 32
\* hexadecimal digits, the k-th draw
token_hex32(k) == [t |-> "str", n |-> k, items |-> <<"token_hex(32)">>]
token_hex16(k) == [t |-> "str", n |-> k, items |-> <<"token_hex(16)">>]
\* hashlib.sha256(data).hexdigest(), hmac.new(key, msg, sha256).hexdigest()
\* and json.dumps(obj, sort_keys=True): one-to-one on the values of the model
sha256(data) == [sha256 |-> data]
hmac_sha256(key, msg) == [hmac |-> key, msg |-> msg]
json_dumps(obj) == [json |-> obj]

\* bool(x) of a value a JSON body can carry
Truthy(x) ==
    CASE x.t \in {"None", "missing"} -> FALSE
      [] x.t \in {"bool", "int"} -> x.n # 0
      [] x.t = "str" -> x.items # <<"">>
      [] OTHER -> TRUE

\* proof_data.get(key): None for a key the dict does not have
DictGet(d, key) == IF d[key] = Missing THEN None ELSE d[key]

\* the challenges get_challenge has returned so far
IssuedChallenges == {token_hex32(k) : k \in 1..issued_challenges}

EnhancedZKPVerifier_generate_server_challenge == token_hex32(issued_challenges + 1)

EnhancedZKPVerifier_client_generate_commitment(age, nonce) ==
    sha256(<<"age", age, "nonce", nonce>>)

EnhancedZKPVerifier_client_generate_proof(age, minimum_age, challenge, nonce) ==
    IF age < minimum_age
    THEN [made |-> FALSE]
    ELSE LET proof_data == [challenge |-> challenge,
                            meets_requirement |-> PyBool(TRUE),
                            nonce_hash |-> sha256(nonce),
                            proof_type |-> PyStr("age_verification")]
         IN  [made |-> TRUE,
              proof_data |-> proof_data,
              signature |-> hmac_sha256(nonce, json_dumps(proof_data)),
              commitment |-> EnhancedZKPVerifier_client_generate_commitment(age, nonce)]

\* lines 72-94: commitment, signature and minimum_age are not read
EnhancedZKPVerifier_server_verify_proof(commitment, proof_data, signature, challenge, minimum_age) ==
    IF DictGet(proof_data, "challenge") # challenge THEN FALSE
    ELSE IF DictGet(proof_data, "proof_type") # PyStr("age_verification") THEN FALSE
    ELSE IF ~Truthy(DictGet(proof_data, "meets_requirement")) THEN FALSE
    ELSE TRUE

\* GET /get-challenge
get_challenge ==
    /\ issued_challenges < MaxSessions
    /\ issued_challenges' = issued_challenges + 1
    /\ lastCall' = [op |-> "get_challenge",
                    response |-> [code |-> 200,
                                  challenge |-> EnhancedZKPVerifier_generate_server_challenge,
                                  server_id |-> token_hex16(issued_challenges + 1)]]
    /\ UNCHANGED <<active_challenges, active_sessions, issued_sessions,
                   now, bundles, inflight, counters>>

\* the client runs client_generate_proof on its own device
EnhancedClientProof(age, minimum_age, challenge, nonce) ==
    /\ lastCall' = [op |-> "enhanced_client_generate_proof",
                    age |-> age, minimum_age |-> minimum_age,
                    ret |-> EnhancedZKPVerifier_client_generate_proof(
                                age, minimum_age, challenge, nonce)]
    /\ UNCHANGED <<serverVars, now, bundles, inflight, counters>>

\* POST /verify-age-proof
verify_age_proof(request) ==
    LET is_valid == EnhancedZKPVerifier_server_verify_proof(
                        request.commitment, request.proof_data, request.signature,
                        request.challenge, request.minimum_age)
    IN  /\ lastCall' = [op |-> "verify_age_proof",
                        request |-> request,
                        response |-> [code |-> 200,
                                      is_valid |-> is_valid,
                                      message |-> IF is_valid THEN "Proof verified"
                                                  ELSE "Invalid proof",
                                      server_learned_age |-> FALSE]]
        /\ UNCHANGED <<serverVars, now, bundles, inflight, counters>>

\* the challenge strings a client can present: issued or not
EnhancedChallenges == {token_hex32(k) : k \in Challenges}

\* the proof_data dicts a client can send: what client_generate_proof builds,
\* with any key absent or carrying another value
EnhancedProofData ==
    [challenge : EnhancedChallenges \cup {Missing},
     meets_requirement : {PyBool(TRUE), PyBool(FALSE), Missing},
     nonce_hash : {sha256(nonce) : nonce \in Scalars},
     proof_type : {PyStr("age_verification"), PyStr("other"), Missing}]

EnhancedProofRequests ==
    [commitment : {EnhancedZKPVerifier_client_generate_commitment(age, nonce) :
                       age \in Ages, nonce \in Scalars},
     proof_data : EnhancedProofData,
     signature : {EnhancedZKPVerifier_client_generate_proof(
                      MaxAge, 0, challenge, nonce).signature :
                      challenge \in EnhancedChallenges, nonce \in Scalars},
     challenge : EnhancedChallenges,
     minimum_age : Ages]

NextEnhanced ==
    \/ get_challenge
    \/ \E age \in Ages, minimum_age \in Ages,
          challenge \in EnhancedChallenges, nonce \in Scalars :
           EnhancedClientProof(age, minimum_age, challenge, nonce)
    \/ \E request \in EnhancedProofRequests : verify_age_proof(request)

SpecEnhanced == Init /\ [][NextEnhanced]_vars

\* C25: the enhanced verifier accepts a proof only on a challenge that
\* get_challenge returned before: whenever verify_age_proof answers
\* is_valid = true, the challenge of the request is one the server issued
C25_ChallengeWasIssued ==
    (lastCall.op = "verify_age_proof" /\ lastCall.response.is_valid)
        => lastCall.request.challenge \in IssuedChallenges

(***************************************************************************)
(* The hash-commitment variant of backend/main.py.  The service keeps no   *)
(* state; bundles holds the responses of /generate-proof the clients have  *)
(* received, issued_challenges counts the salts and challenges drawn.      *)
(***************************************************************************)
\* a birth_date string: one that strptime(birth_date, "%Y-%m-%d") parses to a
\* date, or one on which it raises ValueError
Years == 0..(MaxAge + 1)
Dates == [parses : {TRUE}, year : Years, month : 1..2, day : 1..2]
BadDate == [parses |-> FALSE, year |-> 0, month |-> 0, day |-> 0]
BirthDates == Dates \cup {BadDate}
\* date.today()
Todays == {d \in Dates : d.year = MaxAge + 1}

\* (today.month, today.day) < (birth.month, birth.day), as 0 or 1
BirthdayAhead(today, birth) ==
    IF today.month < birth.month
       \/ (today.month = birth.month /\ today.day < birth.day)
    THEN 1 ELSE 0

ZKPAgeVerifier_calculate_age(birth, today) ==
    today.year - birth.year - BirthdayAhead(today, birth)

ZKPAgeVerifier_generate_commitment(age, salt) == sha256(<<age, salt>>)

\* lines 64-94, on a birth date that parsed
ZKPAgeVerifier_generate_proof(birth, minimum_age, today, salt, token, timestamp) ==
    LET actual_age == ZKPAgeVerifier_calculate_age(birth, today)
        commitment == ZKPAgeVerifier_generate_commitment(actual_age, salt)
        challenge == token_hex16(token)
        meets_requirement == actual_age >= minimum_age
        proof_data == [salt |-> salt,
                       meets_requirement |-> meets_requirement,
                       timestamp |-> timestamp]
    IN  [proof |-> sha256(json_dumps(proof_data)),
         commitment |-> commitment,
         challenge |-> challenge,
         proof_data |-> proof_data,
         is_valid |-> meets_requirement]

\* lines 99-106
ZKPAgeVerifier_verify_proof(proof, commitment, challenge, minimum_age) == TRUE

\* AgeProofResponse(...): proof_data is not a field of the response model
AgeProofResponse(result) ==
    [code |-> 200, proof |-> result.proof, commitment |-> result.commitment,
     challenge |-> result.challenge, is_valid |-> result.is_valid]

\* POST /generate-proof: the ValueError of strptime becomes an HTTPException
\* in generate_proof, which the handler catches and raises again as a 400
main_generate_proof(request, today) ==
    IF ~request.birth_date.parses
    THEN /\ lastCall' = [op |-> "main_generate_proof", request |-> request,
                         today |-> today,
                         response |-> Http400("Invalid birth date format")]
         /\ UNCHANGED <<serverVars, now, bundles, inflight, counters>>
    ELSE LET result == ZKPAgeVerifier_generate_proof(
                           request.birth_date, request.minimum_age, today,
                           issued_challenges + 1, issued_challenges + 1, now)
             response == AgeProofResponse(result)
         IN  /\ issued_challenges < MaxSessions
             /\ Cardinality(bundles) < MaxBundles
             /\ issued_challenges' = issued_challenges + 1
             /\ bundles' = bundles \cup {response}
             /\ lastCall' = [op |-> "main_generate_proof", request |-> request,
                             today |-> today, response |-> response]
             /\ UNCHANGED <<active_challenges, active_sessions, issued_sessions,
                            now, inflight, counters>>

\* POST /verify-proof
main_verify_proof(request) ==
    /\ lastCall' = [op |-> "main_verify_proof", request |-> request,
                    response |-> [code |-> 200,
                                  is_valid |-> ZKPAgeVerifier_verify_proof(
                                                   request.proof, request.commitment,
                                                   request.challenge, request.minimum_age),
                                  message |-> "Proof verification completed"]]
    /\ UNCHANGED <<serverVars, now, bundles, inflight, counters>>

AgeProofRequests == [birth_date : BirthDates, minimum_age : Ages]

\* the requests a client can build from the responses it holds: the triple of
\* one response, or its proof and commitment under another challenge
VerificationRequests ==
    {[proof |-> b.proof, commitment |-> b.commitment,
      challenge |-> challenge, minimum_age |-> minimum_age] :
         b \in bundles,
         challenge \in {token_hex16(k) : k \in Challenges},
         minimum_age \in Ages}

NextBasic ==
    \/ Tick
    \/ \E request \in AgeProofRequests, today \in Todays :
           main_generate_proof(request, today)
    \/ \E request \in VerificationRequests : main_verify_proof(request)

SpecBasic == Init /\ [][NextBasic]_vars

\* the responses of /generate-proof that report is_valid = false
Unproved == {b \in bundles : ~b.is_valid}

\* C26: a birth date whose age is below minimum_age yields is_valid = false
\* from /generate-proof, and the proof, commitment and challenge of such a
\* response are not accepted by /verify-proof
C26_BasicSoundness ==
    /\ (/\ lastCall.op = "main_generate_proof"
        /\ lastCall.response.code = 200
        /\ ZKPAgeVerifier_calculate_age(lastCall.request.birth_date, lastCall.today)
               < lastCall.request.minimum_age)
       => ~lastCall.response.is_valid
    /\ (/\ lastCall.op = "main_verify_proof"
        /\ \E b \in Unproved :
               /\ lastCall.request.proof = b.proof
               /\ lastCall.request.commitment = b.commitment
               /\ lastCall.request.challenge = b.challenge)
       => ~lastCall.response.is_valid

====
